---- MODULE Spec2Model ----
(***************************************************************************)
(* A model of ds-decomp's function discovery (src/analysis/functions.rs,   *)
(* src/analysis/function_start.rs), relocation table                       *)
(* (src/config/relocation.rs) and cross-reference analysis                 *)
(* (src/config/program.rs).                                                *)
(*                                                                         *)
(* Spec           : Function::find_functions / Function::parse_function    *)
(*                  run on every code region drawn from Halfwords.         *)
(* SpecRelocations: a Relocations table under add, add_call, add_load,     *)
(*                  extend, to_file and from_file.                         *)
(* SpecProgram    : Program::analyze_cross_references                      *)
(*                  (src/config/program.rs) over a main module and two     *)
(*                  overlays.                                              *)
(* SpecFromModules: RelocationModule::from_modules on every sequence of    *)
(*                  up to MaxModules modules.                              *)
(***************************************************************************)
EXTENDS Integers, Sequences, FiniteSets, TLC

VARIABLES
    \* ---- Function::find_functions: arguments
    input,                          \* [code, base_addr, start_address, end_address, num_functions]
    \* ---- Function::find_functions: locals
    symbol_map,                     \* addresses that have a symbol
    functions,                      \* Vec<Function>
    start_address,                  \* u32
    code,                           \* the remaining slice &[u8]
    pc,                             \* "init" | "loop" | "parse" | "done" | "panic_*"
    \* ---- Function::parse_function: locals
    thumb,
    new,
    address,                        \* the parser's next address
    labels,
    last_conditional_destination,   \* Option<u32>
    last_pool_address,              \* Option<u32>
    \* ---- Relocations
    relocations,                    \* BTreeMap<u32, Relocation>, as its in-order entries
    status,                         \* "ok" | "panic" | "error" (from_file returned Err)
    stderr,                         \* what the last operation printed on stderr
    file,                           \* the text of the relocation file
    \* ---- Program
    modules,                        \* Vec<Module>: [kind, sections, default_data_prefix, relocations]
    symbol_maps,                    \* SymbolMaps: module kind -> the symbols added, in order
    module_index,                   \* the loop variable of analyze_cross_references
    external_symbols,               \* the external symbols of the current module still to resolve
    xref,                           \* "idle" | "analyze" | "resolve" | "ok" | "error" | "panic"
    target                          \* what the last call of from_modules returned

fn_vars == <<input, symbol_map, functions, start_address, code, pc, thumb, new,
             address, labels, last_conditional_destination, last_pool_address>>
rel_vars == <<relocations, status, stderr, file>>
prog_vars == <<modules, symbol_maps, module_index, external_symbols, xref, target>>
vars == <<fn_vars, rel_vars, prog_vars>>

(***************************************************************************)
(* Option<T>: None is <<>>, Some(x) is <<x>>.  Rust orders None below      *)
(* every Some.                                                             *)
(***************************************************************************)
None == <<>>
Some(x) == <<x>>
IsSome(o) == o # None
Unwrap(o) == o[1]

OptionGe(a, b) == IF b = None THEN TRUE
                  ELSE IF a = None THEN FALSE
                  ELSE Unwrap(a) >= Unwrap(b)

OptionMax(a, b) == IF OptionGe(a, b) THEN a ELSE b

Max(a, b) == IF a >= b THEN a ELSE b

next_multiple_of(n, m) == IF n % m = 0 THEN n ELSE n + (m - (n % m))

(***************************************************************************)
(* The code region.  A byte is a string: the low byte of a halfword names  *)
(* what the decoder makes of the halfword, the high byte says whether its  *)
(* high nibble is 0xE.  In ARM mode an instruction is the decode of the    *)
(* first halfword of the word under the condition field in byte 3.         *)
(***************************************************************************)
MaxHalfwords == 4

BaseAddrs == { 8 }

Halfwords == { <<"add", "h0">>, <<"add", "hE">>,
               <<"bx", "h0">>, <<"pop_pc", "h0">>,
               <<"b+6", "h0">>, <<"b-12", "h0">>,
               <<"ldr_pc+0", "h0">>, <<"illegal", "h0">>,
               <<"mov_r3_r3", "h0">>, <<"ldr_pc-4", "h0">> }

RECURSIVE Bytes(_)
Bytes(hws) == IF hws = <<>> THEN <<>> ELSE Head(hws) \o Bytes(Tail(hws))

RECURSIVE SeqsOfLen(_, _)
SeqsOfLen(S, n) == IF n = 0 THEN { <<>> }
                   ELSE { <<x>> \o s : x \in S, s \in SeqsOfLen(S, n - 1) }

\* &code[lo..hi] with 0-based byte offsets; out of range is a panic
SliceOk(s, lo, hi) == lo <= hi /\ hi <= Len(s)
Slice(s, lo, hi) == SubSeq(s, lo + 1, hi)

(***************************************************************************)
(* What the decoder reports for an instruction (Ins and ParsedIns)          *)
(***************************************************************************)
\* args: the registers of args[0] and args[1], whether args[1] is dereferenced, and
\* args[2] when it is an unsigned immediate
PlainIns == [mnemonic |-> "add", illegal |-> FALSE, first_reg_pc |-> FALSE,
             list_pc |-> FALSE, branch_destination |-> 0,
             dest_pc |-> FALSE, base_pc_deref |-> FALSE, offset_imm |-> FALSE,
             offset |-> 0, post_indexed |-> FALSE,
             op |-> "Add",
             args |-> [reg0 |-> "r0", reg1 |-> "r1", deref1 |-> FALSE, uimm2 |-> None,
                       count |-> 2]]

NoArgs == [reg0 |-> "none", reg1 |-> "none", deref1 |-> FALSE, uimm2 |-> None, count |-> 0]

Decode(lo) ==
    CASE lo = "add"      -> PlainIns
      [] lo = "bx"       -> [PlainIns EXCEPT !.mnemonic = "bx", !.op = "Bx",
                                             !.args = [NoArgs EXCEPT !.reg0 = "lr",
                                                                     !.count = 1]]
      [] lo = "pop_pc"   -> [PlainIns EXCEPT !.mnemonic = "pop", !.list_pc = TRUE,
                                             !.op = "Pop", !.args = NoArgs]
      [] lo = "b+6"      -> [PlainIns EXCEPT !.mnemonic = "b", !.branch_destination = 6,
                                             !.op = "B", !.args = NoArgs]
      [] lo = "b-12"     -> [PlainIns EXCEPT !.mnemonic = "b", !.branch_destination = -12,
                                             !.op = "B", !.args = NoArgs]
      [] lo = "ldr_pc+0" -> [PlainIns EXCEPT !.mnemonic = "ldr", !.base_pc_deref = TRUE,
                                             !.offset_imm = TRUE, !.offset = 0,
                                             !.op = "Ldr",
                                             !.args = [reg0 |-> "r0", reg1 |-> "pc",
                                                       deref1 |-> TRUE, uimm2 |-> None,
                                                       count |-> 3]]
      [] lo = "ldr_pc-4" -> [PlainIns EXCEPT !.mnemonic = "ldr", !.base_pc_deref = TRUE,
                                             !.offset_imm = TRUE, !.offset = -4,
                                             !.op = "Ldr",
                                             !.args = [reg0 |-> "r0", reg1 |-> "pc",
                                                       deref1 |-> TRUE, uimm2 |-> None,
                                                       count |-> 3]]
      [] lo = "illegal"  -> [PlainIns EXCEPT !.mnemonic = "<illegal>", !.illegal = TRUE,
                                             !.op = "Illegal", !.args = NoArgs]
      [] lo = "mov_r3_r3" -> [PlainIns EXCEPT !.mnemonic = "mov", !.op = "Mov",
                                              !.args = [reg0 |-> "r3", reg1 |-> "r3",
                                                        deref1 |-> FALSE, uimm2 |-> None,
                                                        count |-> 2]]

instruction_size(t) == IF t THEN 2 ELSE 4

\* Parser::next over slice c that starts at address a0: is there an instruction at a
HasNext(c, a0, a, t) == (a - a0) + instruction_size(t) <= Len(c)

InsAt(c, a0, a) == Decode(c[(a - a0) + 1])

\* ARM: the condition field is the high nibble of byte 3; the Thumb returns have none
is_conditional(c, a0, a, t) == IF t THEN FALSE ELSE c[(a - a0) + 4] # "hE"

loads_multiple(ins) == ins.mnemonic \in {"ldm", "pop"}

is_thumb_function(c) ==
    IF Len(c) < 4 THEN TRUE
    ELSE IF c[4] = "hE" THEN FALSE
    ELSE TRUE

is_return(ins, conditional) ==
    IF conditional THEN FALSE
    ELSE IF ins.mnemonic = "bx" THEN TRUE
    ELSE IF ins.mnemonic = "mov" /\ ins.first_reg_pc THEN TRUE
    ELSE IF loads_multiple(ins) THEN
        IF ins.mnemonic = "ldm" /\ ins.list_pc THEN TRUE
        ELSE IF ins.mnemonic = "pop" /\ ins.list_pc THEN TRUE
        ELSE FALSE
    ELSE FALSE

is_branch(ins, a) ==
    IF ins.mnemonic # "b" THEN None
    ELSE Some(a + ins.branch_destination)

\* line 77: try_into::<u32>().unwrap() panics on a negative destination
is_branch_panics(ins, a) == ins.mnemonic = "b" /\ a + ins.branch_destination < 0

\* a pool address computed the ARM way in both modes
is_pool_load_ArmOffset(ins, a, t) ==
    IF ins.mnemonic # "ldr" THEN None
    ELSE IF ~ins.offset_imm THEN None
    ELSE IF ins.dest_pc THEN None
    ELSE IF ~ins.base_pc_deref THEN None
    ELSE IF ins.post_indexed THEN None
    ELSE Some(a + ins.offset + 8)

is_pool_load(ins, a, t) ==
    IF ins.mnemonic # "ldr" THEN None
    ELSE IF ~ins.offset_imm THEN None
    ELSE IF ins.dest_pc THEN None
    ELSE IF ~ins.base_pc_deref THEN None
    ELSE IF ins.post_indexed THEN None
    ELSE LET load_address == a + ins.offset
         IN  Some(IF t THEN next_multiple_of(load_address + 1, 4) ELSE load_address + 8)

(***************************************************************************)
(* is_valid_function_start (src/analysis/function_start.rs)                *)
(***************************************************************************)
\* lines 6-14
is_valid_function_start_arm(ins, conditional) ==
    IF ins.op = "Illegal" \/ ins.illegal THEN FALSE
    ELSE IF conditional THEN FALSE
    ELSE TRUE

\* lines 16-75
is_valid_function_start_thumb(ins) ==
    IF ins.op \in {"Illegal", "Bl", "BlH"} \/ ins.illegal THEN FALSE
    ELSE LET a == ins.args
             two_regs == a.count = 2 /\ a.reg0 # "none" /\ a.reg1 # "none" /\ a.uimm2 = None
             shift == a.count = 3 /\ a.reg0 # "none" /\ a.reg1 # "none" /\ IsSome(a.uimm2)
         IN  CASE ins.mnemonic \in {"mov", "movs"} /\ two_regs /\ a.reg1 = a.reg0 -> FALSE
               [] ins.mnemonic \in {"lsl", "lsls"} /\ shift /\ a.uimm2 = Some(0)
                      /\ a.reg1 = a.reg0 -> FALSE
               [] ins.mnemonic \in {"lsl", "lsls", "lsr", "lsrs"} /\ shift
                      /\ a.reg1 = "r0" /\ Unwrap(a.uimm2) % 4 = 0 -> FALSE
               [] ins.mnemonic \in {"ldr", "ldrh", "ldrb"} /\ a.reg0 # "none" /\ a.deref1
                      /\ a.reg1 \notin {"r0", "r1", "r2", "r3", "sp", "pc"} -> FALSE
               [] ins.mnemonic \in {"strh", "strb"} /\ a.reg0 # "none" /\ a.deref1
                      /\ a.reg1 = a.reg0 -> FALSE
               [] OTHER -> TRUE

\* lines 77-83: Ins::Arm or Ins::Thumb by the mode of the parser
is_valid_function_start(ins, t, conditional) ==
    IF t THEN is_valid_function_start_thumb(ins)
    ELSE is_valid_function_start_arm(ins, conditional)

\* a parser that takes any return for the final one
IsFinalReturn_AnyReturn(a, lcd, ins, conditional) == is_return(ins, conditional)

\* line 120: the condition under which the loop breaks
IsFinalReturn(a, lcd, ins, conditional) ==
    OptionGe(Some(a), lcd) /\ is_return(ins, conditional)

\* an end address that is not rounded up
EndAddress_Unaligned(code_end_address, lpa) ==
    Max(code_end_address, IF IsSome(lpa) THEN Unwrap(lpa) + 4 ELSE 0)

\* line 142
EndAddress(code_end_address, lpa) ==
    next_multiple_of(Max(code_end_address, IF IsSome(lpa) THEN Unwrap(lpa) + 4 ELSE 0), 4)

(***************************************************************************)
(* Function::find_functions                                                *)
(***************************************************************************)
\* the optional arguments and the symbols already in the map, by base address
Calls(b) == { [start_address |-> None, end_address |-> None, num_functions |-> None,
               symbols |-> {}],
              [start_address |-> Some(b + 4), end_address |-> None, num_functions |-> None,
               symbols |-> {}],
              [start_address |-> None, end_address |-> None, num_functions |-> Some(1),
               symbols |-> {b}],
              [start_address |-> None, end_address |-> Some(b + 6), num_functions |-> None,
               symbols |-> {}] }

NoParse == /\ thumb = FALSE /\ new = FALSE /\ address = 0 /\ labels = {}
           /\ last_conditional_destination = None /\ last_pool_address = None

RelIdle == /\ relocations = <<>> /\ status = "ok" /\ stderr = <<>> /\ file = <<>>

ProgIdle == /\ modules = <<>> /\ symbol_maps = <<>> /\ module_index = 0
            /\ external_symbols = <<>> /\ xref = "idle" /\ target = <<>>

FnInit == /\ \E n \in 1..MaxHalfwords : \E hws \in [1..n -> Halfwords] :
                 \E b \in BaseAddrs : \E c \in Calls(b) :
                     input = [code |-> Bytes(hws), base_addr |-> b,
                              start_address |-> c.start_address,
                              end_address |-> c.end_address,
                              num_functions |-> c.num_functions, symbols |-> c.symbols]
          /\ symbol_map = input.symbols
          /\ functions = <<>>
          /\ start_address = 0
          /\ code = <<>>
          /\ pc = "init"
          /\ NoParse

\* lines 157-162
Enter ==
    /\ pc = "init"
    /\ LET start_offset == IF IsSome(input.start_address)
                           THEN Unwrap(input.start_address) - input.base_addr ELSE 0
           end_offset == IF IsSome(input.end_address)
                         THEN Unwrap(input.end_address) - input.base_addr
                         ELSE Len(input.code)
       IN  IF start_offset >= 0 /\ end_offset >= 0 /\ SliceOk(input.code, start_offset, end_offset)
           THEN /\ start_address' = start_offset + input.base_addr
                /\ code' = Slice(input.code, start_offset, end_offset)
                /\ pc' = "loop"
           ELSE /\ pc' = "panic_range"
                /\ UNCHANGED <<start_address, code>>
    /\ UNCHANGED <<input, symbol_map, functions, thumb, new, address, labels,
                   last_conditional_destination, last_pool_address, rel_vars, prog_vars>>

\* a loop that does not count the functions
LoopCondition_NoCount == code # <<>>

LoopCondition == /\ code # <<>>
                 /\ IF IsSome(input.num_functions)
                    THEN Len(functions) < Unwrap(input.num_functions) ELSE TRUE

\* lines 164-181: one more function is tried; parse_function's locals are set up
LoopBody ==
    /\ pc = "loop"
    /\ LoopCondition
    /\ thumb' = is_thumb_function(code)
    /\ new' = (start_address \notin symbol_map)
    /\ address' = start_address
    /\ labels' = {}
    /\ last_conditional_destination' = None
    /\ last_pool_address' = None
    /\ pc' = "parse"
    /\ UNCHANGED <<input, symbol_map, functions, start_address, code, rel_vars, prog_vars>>

\* lines 164, 192
LoopExit ==
    /\ pc = "loop"
    /\ ~LoopCondition
    /\ pc' = "done"
    /\ UNCHANGED <<input, symbol_map, functions, start_address, code, thumb, new, address,
                   labels, last_conditional_destination, last_pool_address, rel_vars, prog_vars>>

\* lines 113-118, 181: an illegal instruction fails the parse and ends discovery
ParseIllegal ==
    /\ pc = "parse"
    /\ HasNext(code, start_address, address, thumb)
    /\ InsAt(code, start_address, address).illegal
    /\ pc' = "done"
    /\ UNCHANGED <<input, symbol_map, functions, start_address, code, thumb, new, address,
                   labels, last_conditional_destination, last_pool_address, rel_vars, prog_vars>>

\* lines 126-138: an instruction that does not end the function
ParseStep ==
    /\ pc = "parse"
    /\ HasNext(code, start_address, address, thumb)
    /\ LET ins == InsAt(code, start_address, address)
           conditional == is_conditional(code, start_address, address, thumb)
           branch == is_branch(ins, address)
           pool == is_pool_load(ins, address, thumb)
       IN  /\ ~ins.illegal
           /\ ~IsFinalReturn(address, last_conditional_destination, ins, conditional)
           /\ IF is_branch_panics(ins, address)
              THEN /\ pc' = "panic_branch"
                   /\ UNCHANGED <<address, labels, last_conditional_destination,
                                  last_pool_address>>
              ELSE /\ labels' = labels \cup (IF IsSome(branch) THEN {Unwrap(branch)} ELSE {})
                                       \cup (IF IsSome(pool) THEN {Unwrap(pool)} ELSE {})
                   /\ last_conditional_destination' =
                          IF IsSome(branch)
                          THEN OptionMax(last_conditional_destination, branch)
                          ELSE last_conditional_destination
                   /\ last_pool_address' =
                          IF IsSome(pool) THEN OptionMax(last_pool_address, pool)
                          ELSE last_pool_address
                   /\ address' = address + instruction_size(thumb)
                   /\ pc' = "parse"
    /\ UNCHANGED <<input, symbol_map, functions, start_address, code, thumb, new, rel_vars, prog_vars>>

\* lines 120-123, 141-145, 183-190: the final return ends the function
ParseReturn ==
    /\ pc = "parse"
    /\ HasNext(code, start_address, address, thumb)
    /\ LET ins == InsAt(code, start_address, address)
           conditional == is_conditional(code, start_address, address, thumb)
           code_end_address == address + instruction_size(thumb)
           end_address == EndAddress(code_end_address, last_pool_address)
           size == end_address - start_address
       IN  /\ ~ins.illegal
           /\ IsFinalReturn(address, last_conditional_destination, ins, conditional)
           /\ IF SliceOk(code, 0, size)
              THEN /\ functions' = Append(functions,
                          [start_address |-> start_address, end_address |-> end_address,
                           code_end_address |-> code_end_address, thumb |-> thumb,
                           labels |-> labels, code |-> Slice(code, 0, size)])
                   /\ symbol_map' = IF new THEN symbol_map \cup {start_address} ELSE symbol_map
                   /\ start_address' = end_address
                   /\ code' = Slice(code, size, Len(code))
                   /\ pc' = "loop"
              ELSE /\ pc' = "panic_slice"
                   /\ UNCHANGED <<functions, symbol_map, start_address, code>>
    /\ UNCHANGED <<input, thumb, new, address, labels, last_conditional_destination,
                   last_pool_address, rel_vars, prog_vars>>

\* lines 113, 141: the stream ends with end_address still None, and unwrap() panics
ParseExhausted ==
    /\ pc = "parse"
    /\ ~HasNext(code, start_address, address, thumb)
    /\ pc' = "panic_unwrap"
    /\ UNCHANGED <<input, symbol_map, functions, start_address, code, thumb, new, address,
                   labels, last_conditional_destination, last_pool_address, rel_vars, prog_vars>>

(***************************************************************************)
(* Relocations (src/config/relocation.rs)                                  *)
(*                                                                         *)
(* Text is a sequence of one-character strings.  A BTreeMap<u32,           *)
(* Relocation> is the sequence of its entries in key order.                *)
(***************************************************************************)
Str_from == <<"f", "r", "o", "m">>
Str_to == <<"t", "o">>
Str_kind == <<"k", "i", "n", "d">>
Str_module == <<"m", "o", "d", "u", "l", "e">>
Str_0x == <<"0", "x">>
Str_arm_call == <<"a", "r", "m", "_", "c", "a", "l", "l">>
Str_thumb_call == <<"t", "h", "u", "m", "b", "_", "c", "a", "l", "l">>
Str_arm_call_thumb == <<"a", "r", "m", "_", "c", "a", "l", "l", "_", "t", "h", "u", "m", "b">>
Str_thumb_call_arm == <<"t", "h", "u", "m", "b", "_", "c", "a", "l", "l", "_", "a", "r", "m">>
Str_load == <<"l", "o", "a", "d">>
Str_none == <<"n", "o", "n", "e">>
Str_overlay == <<"o", "v", "e", "r", "l", "a", "y">>
Str_overlays == <<"o", "v", "e", "r", "l", "a", "y", "s">>
Str_main == <<"m", "a", "i", "n">>
Str_itcm == <<"i", "t", "c", "m">>
Str_dtcm == <<"d", "t", "c", "m">>

Digits == <<"0", "1", "2", "3", "4", "5", "6", "7", "8", "9", "a", "b", "c", "d", "e", "f">>

Whitespace == { " ", "\t" }

\* ---- str helpers -------------------------------------------------------
starts_with(s, p) == Len(s) >= Len(p) /\ SubSeq(s, 1, Len(p)) = p

\* the index of the first occurrence of character c in s, or 0
RECURSIVE Find(_, _, _)
Find(s, c, i) == IF i > Len(s) THEN 0
                 ELSE IF s[i] = c THEN i
                 ELSE Find(s, c, i + 1)

\* str::split_once(c): None, or Some of the pair around the first c
split_once(s, c) ==
    LET i == Find(s, c, 1)
    IN  IF i = 0 THEN None
        ELSE Some(<<SubSeq(s, 1, i - 1), SubSeq(s, i + 1, Len(s))>>)

\* str::split(c): the pieces between the occurrences of c (one piece for no c)
RECURSIVE split(_, _)
split(s, c) ==
    LET i == Find(s, c, 1)
    IN  IF i = 0 THEN <<s>>
        ELSE <<SubSeq(s, 1, i - 1)>> \o split(SubSeq(s, i + 1, Len(s)), c)

strip_suffix(s, c) == IF s # <<>> /\ s[Len(s)] = c THEN Some(SubSeq(s, 1, Len(s) - 1))
                      ELSE None

\* str::split_whitespace: the maximal runs of non-whitespace
RECURSIVE split_whitespace_from(_, _, _)
split_whitespace_from(s, i, word) ==
    IF i > Len(s) THEN (IF word = <<>> THEN <<>> ELSE <<word>>)
    ELSE IF s[i] \in Whitespace
         THEN (IF word = <<>> THEN <<>> ELSE <<word>>) \o split_whitespace_from(s, i + 1, <<>>)
         ELSE split_whitespace_from(s, i + 1, Append(word, s[i]))

split_whitespace(s) == split_whitespace_from(s, 1, <<>>)

\* BufRead::lines: the text between line feeds, a carriage return before one dropped;
\* no line follows a final line feed
RECURSIVE lines(_)
lines(text) ==
    IF text = <<>> THEN <<>>
    ELSE LET i == Find(text, "\n", 1)
             strip_cr(l) == IF l # <<>> /\ l[Len(l)] = "\r" THEN SubSeq(l, 1, Len(l) - 1) ELSE l
         IN  IF i = 0 THEN <<text>>
             ELSE <<strip_cr(SubSeq(text, 1, i - 1))>> \o lines(SubSeq(text, i + 1, Len(text)))

\* ---- numbers -----------------------------------------------------------
\* {:08x} and {}: the digits of n in the radix, zero-padded to width
RECURSIVE FormatRadix(_, _, _)
FormatRadix(n, radix, width) ==
    IF n < radix
    THEN [i \in 1..(IF width > 1 THEN width - 1 ELSE 0) |-> "0"] \o <<Digits[n + 1]>>
    ELSE FormatRadix(n \div radix, radix, width - 1) \o <<Digits[(n % radix) + 1]>>

DigitValue(c) == Find(Digits, c, 1) - 1

\* (2^bits - 1 - d) \div radix, computed from 2^(bits-2) so that bits = 32 stays in range
MaxBefore(bits, radix, d) ==
    LET m == 2^(bits - 2)
    IN  4 * (m \div radix) + ((4 * (m % radix) - 1 - d) \div radix)

\* u32::from_str_radix / u16::from_str_radix: None for no digits, a character that is
\* no digit of the radix, or a value that does not fit the width.  (A value from 2^31
\* on fits a u32 but not the checker's integers; no text of the model holds one.)
RECURSIVE from_str_radix_acc(_, _, _, _, _)
from_str_radix_acc(s, i, radix, bits, acc) ==
    IF i > Len(s) THEN Some(acc)
    ELSE LET d == DigitValue(s[i])
         IN  IF d < 0 \/ d >= radix THEN None
             ELSE IF acc > MaxBefore(bits, radix, d) THEN None
             ELSE from_str_radix_acc(s, i + 1, radix, bits, acc * radix + d)

from_str_radix(s, radix, bits) ==
    IF s = <<>> THEN None ELSE from_str_radix_acc(s, 1, radix, bits, 0)

parse_int(text, bits) ==
    IF starts_with(text, Str_0x)
    THEN from_str_radix(SubSeq(text, 3, Len(text)), 16, bits)
    ELSE from_str_radix(text, 10, bits)

parse_u32(text) == parse_int(text, 32)
parse_u16(text) == parse_int(text, 16)

\* ---- results -----------------------------------------------------------
Ok(v) == [ok |-> TRUE, value |-> v, error |-> ""]
Err(e) == [ok |-> FALSE, value |-> None, error |-> e]

\* ---- RelocationKind ----------------------------------------------------
RelocationKinds == {"ArmCall", "ThumbCall", "ArmCallThumb", "ThumbCallArm", "Load"}

RelocationKind_parse(text) ==
    CASE text = Str_arm_call       -> Ok("ArmCall")
      [] text = Str_thumb_call     -> Ok("ThumbCall")
      [] text = Str_arm_call_thumb -> Ok("ArmCallThumb")
      [] text = Str_thumb_call_arm -> Ok("ThumbCallArm")
      [] text = Str_load           -> Ok("Load")
      [] OTHER                     -> Err("unknown relocation kind")

RelocationKind_fmt(kind) ==
    CASE kind = "ArmCall"      -> Str_arm_call
      [] kind = "ThumbCall"    -> Str_thumb_call
      [] kind = "ArmCallThumb" -> Str_arm_call_thumb
      [] kind = "ThumbCallArm" -> Str_thumb_call_arm
      [] kind = "Load"         -> Str_load

\* ---- RelocationModule --------------------------------------------------
ModuleNone == [tag |-> "None", ids |-> <<>>]
ModuleMain == [tag |-> "Main", ids |-> <<>>]
ModuleItcm == [tag |-> "Itcm", ids |-> <<>>]
ModuleDtcm == [tag |-> "Dtcm", ids |-> <<>>]
ModuleOverlay(id) == [tag |-> "Overlay", ids |-> <<id>>]
ModuleOverlays(ids) == [tag |-> "Overlays", ids |-> ids]

\* parse_u16 over the pieces, stopping at the first that fails
RECURSIVE parse_ids(_)
parse_ids(pieces) ==
    IF pieces = <<>> THEN Ok(<<>>)
    ELSE LET id == parse_u16(Head(pieces))
         IN  IF id = None THEN Err("failed to parse overlay ID")
             ELSE LET rest == parse_ids(Tail(pieces))
                  IN  IF rest.ok THEN Ok(<<Unwrap(id)>> \o rest.value) ELSE rest

RelocationModule_parse(text) ==
    LET parts == split_once(text, "(")
        value == IF parts = None THEN text ELSE Unwrap(parts)[1]
        opts == IF parts = None THEN <<>> ELSE Unwrap(parts)[2]
        stripped == strip_suffix(opts, ")")
        options == IF stripped = None THEN opts ELSE Unwrap(stripped)
    IN  CASE value = Str_none ->
               IF options = <<>> THEN Ok(ModuleNone) ELSE Err("'none' has no options")
          [] value = Str_overlay ->
               LET id == parse_u16(options)
               IN  IF id = None THEN Err("failed to parse overlay ID")
                   ELSE Ok(ModuleOverlay(Unwrap(id)))
          [] value = Str_overlays ->
               LET ids == parse_ids(split(options, ","))
               IN  IF ~ids.ok THEN ids
                   ELSE IF Len(ids.value) < 2 THEN Err("'overlays' must have two or more IDs")
                   ELSE Ok(ModuleOverlays(ids.value))
          [] value = Str_main ->
               IF options = <<>> THEN Ok(ModuleMain) ELSE Err("'main' has no options")
          [] value = Str_itcm ->
               IF options = <<>> THEN Ok(ModuleItcm) ELSE Err("'ITCM' has no options")
          [] value = Str_dtcm ->
               IF options = <<>> THEN Ok(ModuleDtcm) ELSE Err("'DTCM' has no options")
          [] OTHER -> Err("unknown relocation to")

RECURSIVE fmt_more_ids(_)
fmt_more_ids(ids) ==
    IF ids = <<>> THEN <<>>
    ELSE <<",">> \o FormatRadix(Head(ids), 10, 1) \o fmt_more_ids(Tail(ids))

\* ids[0] of an empty list is a panic: the text is only defined for a non-empty list
RelocationModule_fmt(module) ==
    CASE module.tag = "None"     -> Str_none
      [] module.tag = "Overlay"  -> Str_overlay \o <<"(">> \o FormatRadix(module.ids[1], 10, 1)
                                      \o <<")">>
      [] module.tag = "Overlays" -> Str_overlays \o <<"(">> \o FormatRadix(module.ids[1], 10, 1)
                                      \o fmt_more_ids(Tail(module.ids)) \o <<")">>
      [] module.tag = "Main"     -> Str_main
      [] module.tag = "Itcm"     -> Str_itcm
      [] module.tag = "Dtcm"     -> Str_dtcm

\* ---- Relocation --------------------------------------------------------
Relocation(from, to, kind, module) ==
    [from |-> from, to |-> to, kind |-> kind, module |-> module]

new_call(from, to, module, from_thumb, to_thumb) ==
    Relocation(from, to,
               CASE from_thumb /\ to_thumb   -> "ThumbCall"
                 [] from_thumb /\ ~to_thumb  -> "ThumbCallArm"
                 [] ~from_thumb /\ to_thumb  -> "ArmCallThumb"
                 [] ~from_thumb /\ ~to_thumb -> "ArmCall",
               module)

new_load(from, to, module) == Relocation(from, to, "Load", module)

\* iter_attributes: each word split at its first ':' into (key, value)
iter_attributes(words) ==
    [i \in DOMAIN words |->
        LET kv == split_once(words[i], ":")
        IN  IF kv = None THEN <<words[i], <<>>>> ELSE Unwrap(kv)]

\* lines 127-149: the attributes seen so far, or the first error
RECURSIVE parse_attributes(_, _)
parse_attributes(attrs, acc) ==
    IF attrs = <<>> THEN Ok(acc)
    ELSE LET key == Head(attrs)[1]
             value == Head(attrs)[2]
         IN  CASE key = Str_from ->
                    LET n == parse_u32(value)
                    IN  IF n = None THEN Err("failed to parse \"from\" address")
                        ELSE parse_attributes(Tail(attrs), [acc EXCEPT !.from = n])
               [] key = Str_to ->
                    LET n == parse_u32(value)
                    IN  IF n = None THEN Err("failed to parse \"to\" address")
                        ELSE parse_attributes(Tail(attrs), [acc EXCEPT !.to = n])
               [] key = Str_kind ->
                    LET k == RelocationKind_parse(value)
                    IN  IF ~k.ok THEN k
                        ELSE parse_attributes(Tail(attrs), [acc EXCEPT !.kind = Some(k.value)])
               [] key = Str_module ->
                    LET m == RelocationModule_parse(value)
                    IN  IF ~m.ok THEN m
                        ELSE parse_attributes(Tail(attrs), [acc EXCEPT !.module = Some(m.value)])
               [] OTHER -> Err("expected relocation attribute")

\* lines 151-156: every attribute is required
require_attributes(attrs) ==
    IF ~attrs.ok THEN attrs
    ELSE IF attrs.value.from = None THEN Err("missing 'from' attribute")
    ELSE IF attrs.value.to = None THEN Err("missing 'to' attribute")
    ELSE IF attrs.value.kind = None THEN Err("missing 'kind' attribute")
    ELSE IF attrs.value.module = None THEN Err("missing 'module' attribute")
    ELSE Ok(Some(Relocation(Unwrap(attrs.value.from), Unwrap(attrs.value.to),
                            Unwrap(attrs.value.kind), Unwrap(attrs.value.module))))

\* Result<Option<Relocation>>
Relocation_parse(line) ==
    require_attributes(
        parse_attributes(iter_attributes(split_whitespace(line)),
                         [from |-> None, to |-> None, kind |-> None, module |-> None]))

\* addresses written as {:08} instead of {:08x}
Relocation_fmt_Decimal(r) ==
    Str_from \o <<":">> \o Str_0x \o FormatRadix(r.from, 10, 8)
    \o <<" ">> \o Str_kind \o <<":">> \o RelocationKind_fmt(r.kind)
    \o <<" ">> \o Str_to \o <<":">> \o Str_0x \o FormatRadix(r.to, 10, 8)
    \o <<" ">> \o Str_module \o <<":">> \o RelocationModule_fmt(r.module)

Relocation_fmt(r) ==
    Str_from \o <<":">> \o Str_0x \o FormatRadix(r.from, 16, 8)
    \o <<" ">> \o Str_kind \o <<":">> \o RelocationKind_fmt(r.kind)
    \o <<" ">> \o Str_to \o <<":">> \o Str_0x \o FormatRadix(r.to, 16, 8)
    \o <<" ">> \o Str_module \o <<":">> \o RelocationModule_fmt(r.module)

\* ---- BTreeMap<u32, Relocation> ----------------------------------------
\* the index of the entry with the key, or 0
RECURSIVE BTreeIndex(_, _, _)
BTreeIndex(map, key, i) == IF i > Len(map) THEN 0
                           ELSE IF map[i].from = key THEN i
                           ELSE BTreeIndex(map, key, i + 1)

BTreeGet(map, key) ==
    LET i == BTreeIndex(map, key, 1) IN IF i = 0 THEN None ELSE Some(map[i])

\* a map that keeps insertion order
BTreeInsert_Appends(map, key, value) ==
    LET i == BTreeIndex(map, key, 1)
    IN  IF i # 0 THEN [map EXCEPT ![i] = value] ELSE Append(map, value)

\* BTreeMap::insert: the value of an existing key is replaced, a new key takes its
\* place in key order
BTreeInsert(map, key, value) ==
    LET i == BTreeIndex(map, key, 1)
        below == SelectSeq(map, LAMBDA e : e.from < key)
        above == SelectSeq(map, LAMBDA e : e.from > key)
    IN  IF i # 0 THEN [map EXCEPT ![i] = value]
        ELSE below \o <<value>> \o above

\* BTreeMap::range(lo..hi)
BTreeRange(map, lo, hi) == SelectSeq(map, LAMBDA e : lo <= e.from /\ e.from < hi)

\* ---- Relocations -------------------------------------------------------
\* an add that takes every occupied entry for a collision
add_PanicsOnOccupied(map, relocation) ==
    IF BTreeGet(map, relocation.from) = None
    THEN [relocations |-> BTreeInsert(map, relocation.from, relocation),
          status |-> "ok", stderr |-> <<>>]
    ELSE [relocations |-> map, status |-> "panic",
          stderr |-> << <<"collides with existing one", relocation.from>> >>]

\* an add that overwrites the entry it collides with
add_ReplacesOnCollision(map, relocation) ==
    LET entry == BTreeGet(map, relocation.from)
    IN  IF entry # None /\ Unwrap(entry) = relocation
        THEN [relocations |-> map, status |-> "ok",
              stderr |-> << <<"identical to existing one", relocation.from>> >>]
        ELSE [relocations |-> BTreeInsert(map, relocation.from, relocation),
              status |-> "ok", stderr |-> <<>>]

\* lines 41-50: Result<BTreeMap>
RECURSIVE from_lines(_, _)

\* a loader that enters each line with add, and fails where add would panic
load_line_AppliesCollisionRule(parsed, rest, map) ==
    IF ~parsed.ok THEN parsed
    ELSE IF parsed.value = None THEN from_lines(rest, map)
    ELSE IF BTreeGet(map, Unwrap(parsed.value).from) \notin {None, parsed.value}
    THEN Err("collides with existing one")
    ELSE from_lines(rest, BTreeInsert(map, Unwrap(parsed.value).from, Unwrap(parsed.value)))

\* lines 44-47: what the loop does with a parsed line
load_line(parsed, rest, map) ==
    IF ~parsed.ok THEN parsed
    ELSE IF parsed.value = None THEN from_lines(rest, map)
    ELSE from_lines(rest, BTreeInsert(map, Unwrap(parsed.value).from, Unwrap(parsed.value)))

from_lines(ls, map) ==
    IF ls = <<>> THEN Ok(map)
    ELSE load_line(Relocation_parse(Head(ls)), Tail(ls), map)

from_file(text) == from_lines(lines(text), <<>>)

\* lines 59-61: writeln! of every value in key order
RECURSIVE to_file(_)
to_file(map) ==
    IF map = <<>> THEN <<>>
    ELSE Relocation_fmt(Head(map)) \o <<"\n">> \o to_file(Tail(map))

\* lines 65-86: the table, whether the call panicked, and what it printed on stderr
add(map, relocation) ==
    LET entry == BTreeGet(map, relocation.from)
    IN  IF entry = None
        THEN [relocations |-> BTreeInsert(map, relocation.from, relocation),
              status |-> "ok", stderr |-> <<>>]
        ELSE IF Unwrap(entry) = relocation
        THEN [relocations |-> map, status |-> "ok",
              stderr |-> << <<"identical to existing one", relocation.from>> >>]
        ELSE [relocations |-> map, status |-> "panic",
              stderr |-> << <<"collides with existing one", relocation.from>> >>]

\* lines 96-100
RECURSIVE extend(_, _)
extend(map, rs) ==
    IF rs = <<>> THEN [relocations |-> map, status |-> "ok", stderr |-> <<>>]
    ELSE LET first == add(map, Head(rs))
         IN  IF first.status = "panic" THEN first
             ELSE LET rest == extend(first.relocations, Tail(rs))
                  IN  [rest EXCEPT !.stderr = first.stderr \o rest.stderr]

get(map, from) == BTreeGet(map, from)
iter(map) == map
iter_range(map, lo, hi) == BTreeRange(map, lo, hi)

(***************************************************************************)
(* The relocation table's operations, on the addresses and targets below   *)
(***************************************************************************)
\* 0x02000000, 0x0200005c, 0x02000100 and 0x020001a0
Addr == <<33554432, 33554524, 33554688, 33554848>>

MaxExtend == 2

AddInputs == { Relocation(Addr[2], Addr[4], "ThumbCall", ModuleOverlay(3)),
               Relocation(Addr[2], Addr[4], "ThumbCall", ModuleOverlays(<<3, 4>>)),
               Relocation(Addr[1], Addr[4], "Load", ModuleOverlays(<<4, 3>>)),
               Relocation(Addr[3], Addr[4], "Load", ModuleOverlays(<<3>>)) }

CallInputs == { <<Addr[1], Addr[4], ModuleMain, ft, tt>> : ft \in BOOLEAN, tt \in BOOLEAN }

LoadInputs == { <<Addr[3], Addr[4], m>> : m \in {ModuleNone, ModuleItcm} }

\* the vectors handed to extend: two relocations that collide, and a third
ExtendInputs ==
    UNION { SeqsOfLen({ Relocation(Addr[2], Addr[4], "ThumbCall", ModuleOverlay(3)),
                        Relocation(Addr[2], Addr[4], "ThumbCall", ModuleOverlays(<<3, 4>>)),
                        Relocation(Addr[1], Addr[4], "Load", ModuleOverlays(<<4, 3>>)) }, n)
            : n \in 0..MaxExtend }

Line(t) == t \o <<"\n">>

\* the relocation files found on disk
FileBlankLine ==
    Line(Relocation_fmt(Relocation(Addr[1], Addr[4], "ArmCall", ModuleMain)))
    \o Line(<<>>)
    \o Line(Relocation_fmt(Relocation(Addr[2], Addr[4], "ThumbCall", ModuleOverlay(3))))

FileSameFrom ==
    Line(Relocation_fmt(Relocation(Addr[1], Addr[4], "ArmCall", ModuleMain)))
    \o Line(Relocation_fmt(Relocation(Addr[1], Addr[2], "Load", ModuleDtcm)))

FileSameLine ==
    Line(Relocation_fmt(Relocation(Addr[3], Addr[4], "Load", ModuleNone)))
    \o Line(Relocation_fmt(Relocation(Addr[3], Addr[4], "Load", ModuleNone)))

\* attributes in another order, a decimal address, a tab, and descending `from`
FileByHand ==
    Line(Str_module \o <<":">> \o Str_overlays \o <<"(", "4", ",", "3", ")", "\t">>
         \o Str_to \o <<":">> \o Str_0x \o <<"2", "0", "0", "0", "1", "a", "0", " ", " ">>
         \o Str_kind \o <<":">> \o Str_load \o <<" ">>
         \o Str_from \o <<":">> \o FormatRadix(Addr[3], 10, 1))
    \o Line(Relocation_fmt(Relocation(Addr[1], Addr[4], "ArmCallThumb", ModuleMain)))

FileSingleOverlays ==
    Line(Relocation_fmt(Relocation(Addr[3], Addr[4], "Load", ModuleOverlays(<<3>>))))

Files == { <<>>, FileBlankLine, FileSameFrom, FileSameLine, FileByHand, FileSingleOverlays }

RelInit == /\ relocations = <<>>
           /\ status = "ok"
           /\ stderr = <<>>
           /\ file \in Files

FnIdle == /\ input = [code |-> <<>>, base_addr |-> 0, start_address |-> None,
                      end_address |-> None, num_functions |-> None, symbols |-> {}]
          /\ symbol_map = {}
          /\ functions = <<>>
          /\ start_address = 0
          /\ code = <<>>
          /\ pc = "done"
          /\ NoParse

Apply(result) == /\ relocations' = result.relocations
                 /\ status' = result.status
                 /\ stderr' = result.stderr
                 /\ UNCHANGED <<file, fn_vars, prog_vars>>

Add(relocation) == status = "ok" /\ Apply(add(relocations, relocation))

\* lines 88-90
AddCall(from, to, module, from_thumb, to_thumb) ==
    status = "ok" /\ Apply(add(relocations, new_call(from, to, module, from_thumb, to_thumb)))

\* lines 92-94
AddLoad(from, to, module) ==
    status = "ok" /\ Apply(add(relocations, new_load(from, to, module)))

Extend(rs) == status = "ok" /\ Apply(extend(relocations, rs))

\* lines 53-63
ToFile == /\ status = "ok"
          /\ file' = to_file(relocations)
          /\ stderr' = <<>>
          /\ UNCHANGED <<relocations, status, fn_vars, prog_vars>>

\* lines 34-51: the table is the one read, or the caller gets the error
FromFile == /\ status = "ok"
            /\ LET result == from_file(file)
               IN  IF result.ok
                   THEN relocations' = result.value /\ status' = "ok"
                   ELSE relocations' = relocations /\ status' = "error"
            /\ stderr' = <<>>
            /\ UNCHANGED <<file, fn_vars, prog_vars>>

RelNext == \/ \E r \in AddInputs : Add(r)
           \/ \E c \in CallInputs : AddCall(c[1], c[2], c[3], c[4], c[5])
           \/ \E l \in LoadInputs : AddLoad(l[1], l[2], l[3])
           \/ \E rs \in ExtendInputs : Extend(rs)
           \/ ToFile
           \/ FromFile

InitRelocations == FnIdle /\ RelInit /\ ProgIdle

SpecRelocations == InitRelocations /\ [][RelNext]_vars

(***************************************************************************)
(* RelocationModule::from_modules (src/config/relocation.rs)               *)
(***************************************************************************)
\* ModuleKind, as from_modules matches on it
ModuleKind_Arm9 == [tag |-> "Arm9", id |-> <<>>]
ModuleKind_Autoload(kind) == [tag |-> "Autoload", id |-> <<kind>>]
ModuleKind_Overlay(id) == [tag |-> "Overlay", id |-> <<id>>]

\* a panic!() inside a function that returns Result
Panic(e) == [ok |-> FALSE, value |-> <<"panic">>, error |-> e]

\* lines 298-306: the ids of the chained modules, or a panic at one that is no overlay
overlay_ids(kinds) ==
    IF \E i \in DOMAIN kinds : kinds[i].tag # "Overlay"
    THEN Panic("Relocations to overlays should not go to other kinds of modules")
    ELSE Ok([i \in DOMAIN kinds |-> kinds[i].id[1]])

\* a from_modules that takes the first module's kind and looks no further
from_modules_FirstOnly(kinds) ==
    IF kinds = <<>> THEN Ok(ModuleNone)
    ELSE LET first == Head(kinds)
         IN  CASE first.tag = "Arm9" -> Ok(ModuleMain)
               [] first.tag = "Autoload" /\ first.id = <<"Itcm">> -> Ok(ModuleItcm)
               [] first.tag = "Autoload" /\ first.id = <<"Dtcm">> -> Ok(ModuleDtcm)
               [] first.tag = "Autoload" /\ first.id \notin {<<"Itcm">>, <<"Dtcm">>} ->
                      Err("Unknown autoload kind")
               [] first.tag = "Overlay" -> Ok(ModuleOverlay(first.id[1]))

\* lines 269-313, on the kinds of the modules the iterator yields
from_modules(kinds) ==
    IF kinds = <<>> THEN Ok(ModuleNone)
    ELSE LET first == Head(kinds)
             more == Tail(kinds) # <<>>
         IN  CASE first.tag = "Arm9" ->
                      IF more THEN Panic("Relocations to main should be unambiguous")
                      ELSE Ok(ModuleMain)
               [] first.tag = "Autoload" /\ first.id = <<"Itcm">> ->
                      IF more THEN Panic("Relocations to ITCM should be unambiguous")
                      ELSE Ok(ModuleItcm)
               [] first.tag = "Autoload" /\ first.id = <<"Dtcm">> ->
                      IF more THEN Panic("Relocations to DTCM should be unambiguous")
                      ELSE Ok(ModuleDtcm)
               [] first.tag = "Autoload" /\ first.id \notin {<<"Itcm">>, <<"Dtcm">>} ->
                      Err("Unknown autoload kind")
               [] first.tag = "Overlay" ->
                      LET ids == overlay_ids(kinds)
                      IN  IF ~ids.ok THEN ids
                          ELSE IF Len(ids.value) > 1 THEN Ok(ModuleOverlays(ids.value))
                          ELSE Ok(ModuleOverlay(first.id[1]))

\* the sequences over S of length n without a repeated element
RECURSIVE DistinctSeqsOfLen(_, _)
DistinctSeqsOfLen(S, n) ==
    IF n = 0 THEN { <<>> }
    ELSE UNION { { <<x>> \o s : s \in DistinctSeqsOfLen(S \ {x}, n - 1) } : x \in S }

MaxModules == 2

\* a Module, as far as the program looks at it: kind(), sections() as the kinds of the
\* sections, default_data_prefix and relocations()
Module(kind, sections, prefix) ==
    [kind |-> kind, sections |-> sections, default_data_prefix |-> prefix,
     relocations |-> <<>>]

Str_data == <<"d", "a", "t", "a", "_">>

\* the module kinds an iterator handed to from_modules can yield
ModuleKinds == { ModuleKind_Arm9, ModuleKind_Autoload("Itcm"), ModuleKind_Autoload("Dtcm"),
                 ModuleKind_Autoload("Unknown"), ModuleKind_Overlay(3), ModuleKind_Overlay(4),
                 ModuleKind_Overlay(5), ModuleKind_Overlay(6) }

FromModulesInputs ==
    UNION { DistinctSeqsOfLen({ Module(k, <<"Code", "Data", "Bss">>, Str_data) : k \in ModuleKinds },
                              n) : n \in 0..MaxModules }

\* Module::kind of each module of the iterator
kinds_of(ms) == [i \in DOMAIN ms |-> ms[i].kind]

InitFromModules ==
    /\ FnIdle /\ RelIdle
    /\ modules \in FromModulesInputs
    /\ symbol_maps = <<>> /\ module_index = 0 /\ external_symbols = <<>>
    /\ xref = "idle" /\ target = <<>>

\* one call of from_modules on the candidate modules
FromModules ==
    /\ xref = "idle"
    /\ target = <<>>
    /\ target' = <<from_modules(kinds_of(modules))>>
    /\ UNCHANGED <<modules, symbol_maps, module_index, external_symbols, xref,
                   fn_vars, rel_vars>>

SpecFromModules == InitFromModules /\ [][FromModules]_vars

(***************************************************************************)
(* Program::analyze_cross_references (src/config/program.rs)               *)
(***************************************************************************)
\* lines 25-36: main first, then the overlays, then the autoloads
Program_new(main, overlays, autoloads) == <<main>> \o overlays \o autoloads

\* SymbolMap::add_data, add_bss, add_ambiguous_data, add_ambiguous_bss: the symbol is
\* added to the map; a map is the symbols added to it, in order
add_data(map, name, addr) ==
    Append(map, [name |-> name, addr |-> addr, kind |-> "Data", ambiguous |-> FALSE,
                 size |-> None])
add_bss(map, name, addr) ==
    Append(map, [name |-> name, addr |-> addr, kind |-> "Bss", ambiguous |-> FALSE,
                 size |-> None])
add_ambiguous_data(map, name, addr) ==
    Append(map, [name |-> name, addr |-> addr, kind |-> "Data", ambiguous |-> TRUE,
                 size |-> None])
add_ambiguous_bss(map, name, addr) ==
    Append(map, [name |-> name, addr |-> addr, kind |-> "Bss", ambiguous |-> TRUE,
                 size |-> None])

\* lines 57-69: the only candidate of a symbol
resolve_single(maps, ms, symbol) ==
    LET candidate == symbol.candidates[1]
        module == ms[candidate.module_index + 1]
        section_kind == module.sections[candidate.section_index + 1]
        name == module.default_data_prefix \o FormatRadix(symbol.address, 16, 8)
    IN  CASE section_kind = "Code" -> maps
          [] section_kind = "Data" ->
                 [maps EXCEPT ![module.kind] = add_data(@, name, symbol.address)]
          [] section_kind = "Bss" ->
                 [maps EXCEPT ![module.kind] = add_bss(@, name, symbol.address)]

\* lines 72-85: every candidate of a symbol that has several
RECURSIVE resolve_multiple(_, _, _, _)
resolve_multiple(maps, ms, addr, candidates) ==
    IF candidates = <<>> THEN maps
    ELSE LET candidate == Head(candidates)
             module == ms[candidate.module_index + 1]
             section_kind == module.sections[candidate.section_index + 1]
             name == module.default_data_prefix \o FormatRadix(addr, 16, 8)
             added == CASE section_kind = "Code" -> maps
                        [] section_kind = "Data" ->
                               [maps EXCEPT ![module.kind] =
                                    add_ambiguous_data(@, name, addr)]
                        [] section_kind = "Bss" ->
                               [maps EXCEPT ![module.kind] =
                                    add_ambiguous_bss(@, name, addr)]
         IN  resolve_multiple(added, ms, addr, Tail(candidates))

\* a resolution that settles on the first candidate whenever there is one
resolve_symbol_FirstCandidate(maps, ms, symbol) ==
    IF Len(symbol.candidates) = 0
    THEN Err("There should be at least one symbol candidate")
    ELSE Ok(resolve_single(maps, ms, symbol))

\* lines 51-87: the match on the number of candidates
resolve_symbol(maps, ms, symbol) ==
    IF Len(symbol.candidates) = 0
    THEN Err("There should be at least one symbol candidate")
    ELSE IF Len(symbol.candidates) = 1
    THEN Ok(resolve_single(maps, ms, symbol))
    ELSE Ok(resolve_multiple(maps, ms, symbol.address, symbol.candidates))

\* ---- the program analysed, and what the external analyzer can return -----
MaxCandidates == 2

\* a main module and two overlays that share an address range
ProgramModules ==
    Program_new(Module(ModuleKind_Arm9, <<"Code", "Data">>, Str_data),
                << Module(ModuleKind_Overlay(3), <<"Data", "Bss">>, Str_data),
                   Module(ModuleKind_Overlay(4), <<"Data">>, Str_data) >>,
                <<>>)

\* 0x02100000
SymbolAddrs == { 34603008 }

\* SymbolCandidate: a section of a module other than the one analysed
Candidates(ms, mi) ==
    { [module_index |-> m, section_index |-> sct] :
          m \in (0..Len(ms) - 1) \ {mi}, sct \in 0..1 } \cap
    { c \in [module_index : 0..Len(ms) - 1, section_index : 0..1] :
          c.section_index < Len(ms[c.module_index + 1].sections) }

\* RelocationResult.external_symbols of data::analyze_external_references
ExternalSymbols(ms, mi) ==
    { <<>> } \cup
    { << [address |-> a, candidates |-> cs] >> :
          a \in SymbolAddrs,
          cs \in UNION { DistinctSeqsOfLen(Candidates(ms, mi), n) : n \in 0..MaxCandidates } }

\* RelocationResult.relocations of data::analyze_external_references: a load, the same
\* load twice, or two loads that collide
AnalyzerRelocations ==
    { << new_load(Addr[1], Addr[4], ModuleOverlays(<<3, 4>>)) >>,
      << new_load(Addr[1], Addr[4], ModuleOverlays(<<3, 4>>)),
         new_load(Addr[1], Addr[4], ModuleOverlays(<<3, 4>>)) >>,
      << new_load(Addr[1], Addr[4], ModuleOverlay(3)),
         new_load(Addr[1], Addr[4], ModuleOverlay(4)) >> }

InitProgram ==
    /\ FnIdle /\ RelIdle
    /\ modules = ProgramModules
    /\ symbol_maps = [k \in { ProgramModules[i].kind : i \in DOMAIN ProgramModules } |-> <<>>]
    /\ module_index = 0
    /\ external_symbols = <<>>
    /\ xref = "analyze"
    /\ target = <<>>

\* lines 41-46: the external analyzer fails and `?` returns its error
AnalyzeError ==
    /\ xref = "analyze"
    /\ module_index < Len(modules)
    /\ xref' = "error"
    /\ UNCHANGED <<modules, symbol_maps, module_index, external_symbols, target,
                   fn_vars, rel_vars>>

\* lines 40-48: the external analyzer returns, and the module's table is extended
Analyze ==
    /\ xref = "analyze"
    /\ module_index < Len(modules)
    /\ \E rs \in AnalyzerRelocations : \E symbols \in ExternalSymbols(modules, module_index) :
          LET extended == extend(modules[module_index + 1].relocations, rs)
          IN  IF extended.status = "panic"
              THEN /\ xref' = "panic"
                   /\ UNCHANGED <<modules, external_symbols>>
              ELSE /\ modules' = [modules EXCEPT ![module_index + 1].relocations =
                                                      extended.relocations]
                   /\ external_symbols' = symbols
                   /\ xref' = "resolve"
    /\ UNCHANGED <<symbol_maps, module_index, target, fn_vars, rel_vars>>

\* lines 50-88: one external symbol
Resolve ==
    /\ xref = "resolve"
    /\ external_symbols # <<>>
    /\ LET resolved == resolve_symbol(symbol_maps, modules, Head(external_symbols))
       IN  IF resolved.ok
           THEN /\ symbol_maps' = resolved.value
                /\ external_symbols' = Tail(external_symbols)
                /\ UNCHANGED xref
           ELSE /\ xref' = "error"
                /\ UNCHANGED <<symbol_maps, external_symbols>>
    /\ UNCHANGED <<modules, module_index, target, fn_vars, rel_vars>>

\* lines 40, 88-89: the next module
NextModule ==
    /\ xref = "resolve"
    /\ external_symbols = <<>>
    /\ module_index' = module_index + 1
    /\ xref' = "analyze"
    /\ UNCHANGED <<modules, symbol_maps, external_symbols, target, fn_vars, rel_vars>>

\* line 90
Finish ==
    /\ xref = "analyze"
    /\ module_index = Len(modules)
    /\ xref' = "ok"
    /\ UNCHANGED <<modules, symbol_maps, module_index, external_symbols, target,
                   fn_vars, rel_vars>>

ProgramNext == \/ AnalyzeError
               \/ Analyze
               \/ Resolve
               \/ NextModule
               \/ Finish

SpecProgram == InitProgram /\ [][ProgramNext]_vars

Init == FnInit /\ RelIdle /\ ProgIdle

Next == \/ Enter
        \/ LoopBody
        \/ LoopExit
        \/ ParseIllegal
        \/ ParseStep
        \/ ParseReturn
        \/ ParseExhausted

Spec == Init /\ [][Next]_vars

(***************************************************************************)
(* Properties of function discovery                                        *)
(***************************************************************************)
Produced == { functions[i] : i \in DOMAIN functions }

\* the instruction addresses of a stream over slice c at a0, in mode t
StreamAddresses(c, a0, t) ==
    { a0 + k * instruction_size(t) : k \in 0..(Len(c) \div instruction_size(t)) - 1 }

\* a `b` at an earlier address of the stream whose destination lies beyond a
InsideBranch(c, a0, t, a) ==
    \E b \in StreamAddresses(c, a0, t) :
        /\ b < a
        /\ InsAt(c, a0, b).mnemonic = "b"
        /\ b + InsAt(c, a0, b).branch_destination > a

\* an unconditional bx, mov pc, ldm {.. pc} or pop {.. pc} at a that no earlier `b` jumps over
TerminatingReturn(c, a0, t, a) ==
    /\ LET ins == InsAt(c, a0, a)
       IN  /\ ~is_conditional(c, a0, a, t)
           /\ \/ ins.mnemonic = "bx"
              \/ ins.mnemonic = "mov" /\ ins.first_reg_pc
              \/ ins.mnemonic \in {"ldm", "pop"} /\ ins.list_pc
    /\ ~InsideBranch(c, a0, t, a)

\* C1: every label of a produced function lies in [start_address, end_address)
C1_LabelsInsideFunction ==
    \A F \in Produced : \A a \in F.labels : F.start_address <= a /\ a < F.end_address

\* C2: when the instruction stream ends before a terminating return, the parse fails:
\* discovery stops with the functions found so far and the symbol map as it was,
\* and nothing aborts
C2_ExhaustedStreamIsParseFailure ==
    [][ (pc = "parse" /\ ~HasNext(code, start_address, address, thumb))
          => (pc' = "done" /\ functions' = functions /\ symbol_map' = symbol_map) ]_vars

\* C4: whenever parsing reaches a terminating return a function is produced, its size()
\* is the length of its code, and its code is the prefix of that length of the code
\* remaining at its start address
C4_SizeIsCodeLength ==
    /\ pc # "panic_slice"
    /\ \A F \in Produced :
          /\ F.end_address - F.start_address = Len(F.code)
          /\ F.code = Slice(input.code, F.start_address - input.base_addr,
                            F.end_address - input.base_addr)

\* C5: start_address <= code_end_address <= end_address, and end_address is a multiple of 4
C5_EndAddresses ==
    \A F \in Produced :
        /\ F.start_address <= F.code_end_address
        /\ F.code_end_address <= F.end_address
        /\ F.end_address % 4 = 0

\* a produced function with a pool label and pool bytes after its code
C5_Witness ==
    \E F \in Produced :
        /\ F.code_end_address < F.end_address
        /\ \E a \in F.labels : a >= F.code_end_address

\* C6: a function ends at the first terminating return of its stream, and
\* code_end_address is that return's address plus its size; while a parse is running,
\* no instruction already passed was a terminating return
C6_EndsAtFirstTerminatingReturn ==
    /\ \A F \in Produced :
          LET last == F.code_end_address - instruction_size(F.thumb)
              stream == StreamAddresses(F.code, F.start_address, F.thumb)
          IN  /\ last \in stream
              /\ TerminatingReturn(F.code, F.start_address, F.thumb, last)
              /\ \A a \in stream :
                    a < last => ~TerminatingReturn(F.code, F.start_address, F.thumb, a)
    /\ pc = "parse" =>
          \A a \in StreamAddresses(code, start_address, thumb) :
              a < address => ~TerminatingReturn(code, start_address, thumb, a)

\* a produced function that passed over a return lying inside a branch: b ; bx ; .. ; pop
C6_Witness ==
    \E F \in Produced :
        \E a \in StreamAddresses(F.code, F.start_address, F.thumb) :
            /\ a < F.code_end_address - instruction_size(F.thumb)
            /\ InsAt(F.code, F.start_address, a).mnemonic = "bx"
            /\ InsAt(F.code, F.start_address, F.code_end_address - 2).mnemonic = "pop"
            /\ F.thumb

\* C14: no function is produced, and no symbol added, at a start address whose
\* first instruction is_valid_function_start rejects
C14_StartsAreValidated ==
    /\ \A F \in Produced :
          is_valid_function_start(InsAt(F.code, F.start_address, F.start_address), F.thumb,
                                  is_conditional(F.code, F.start_address, F.start_address,
                                                 F.thumb))
    /\ \A a \in symbol_map \ input.symbols : \E F \in Produced : F.start_address = a

\* the region find_functions was given
RegionStart == IF IsSome(input.start_address) THEN Unwrap(input.start_address)
               ELSE input.base_addr
RegionEnd == IF IsSome(input.end_address) THEN Unwrap(input.end_address)
             ELSE input.base_addr + Len(input.code)

\* C15: the functions found tile the region in discovery order: the first starts at the
\* requested start address (or the base address), each later one starts where the one
\* before it ends, all lie within the region, and there are at most num_functions of
\* them; the loop has stopped only with no code left, with the count reached, or at
\* a parse failure
C15_FunctionsTileRegion ==
    /\ functions # <<>> => functions[1].start_address = RegionStart
    /\ \A i \in 2..Len(functions) :
          functions[i].start_address = functions[i - 1].end_address
    /\ \A F \in Produced :
          /\ RegionStart <= F.start_address
          /\ F.start_address < F.end_address
          /\ F.end_address <= RegionEnd
    /\ IsSome(input.num_functions) => Len(functions) <= Unwrap(input.num_functions)
    /\ pc = "done" =>
          \/ code = <<>>
          \/ IsSome(input.num_functions) /\ Len(functions) = Unwrap(input.num_functions)
          \/ /\ HasNext(code, start_address, address, thumb)
             /\ InsAt(code, start_address, address).illegal

\* discovery has ended with two functions, or with the count reached and code left
C15_Witness ==
    /\ pc = "done"
    /\ \/ Len(functions) >= 2
       \/ Len(functions) = 1 /\ input.num_functions = Some(1) /\ code # <<>>

\* the greatest number of a non-empty set
MaxOf(S) == CHOOSE x \in S : \A y \in S : y <= x

\* the pool addresses of the PC-relative loads of F that lie before its final return
PoolAddresses(F) ==
    { IF F.thumb THEN ((a + InsAt(F.code, F.start_address, a).offset + 1 + 3) \div 4) * 4
      ELSE a + InsAt(F.code, F.start_address, a).offset + 8 :
          a \in { x \in StreamAddresses(F.code, F.start_address, F.thumb) :
                    /\ x < F.code_end_address - instruction_size(F.thumb)
                    /\ LET ins == InsAt(F.code, F.start_address, x)
                       IN  /\ ins.mnemonic = "ldr"
                           /\ ins.base_pc_deref /\ ins.offset_imm
                           /\ ~ins.dest_pc /\ ~ins.post_indexed } }

\* C16: end_address is max(code_end_address, P + 4) rounded up to a multiple of 4, P
\* being the greatest pool address of the PC-relative loads before the final return
\* (address + off + 8 in ARM mode, address + off + 1 rounded up to 4 in Thumb mode);
\* without such a load it is code_end_address rounded up to 4
C16_EndAddressCoversPool ==
    \A F \in Produced :
        LET pools == PoolAddresses(F)
            top == IF pools = {} THEN F.code_end_address
                   ELSE Max(F.code_end_address, MaxOf(pools) + 4)
        IN  F.end_address = ((top + 3) \div 4) * 4

\* a function has been produced whose end is set by a pool load
C16_Witness ==
    \E F \in Produced :
        /\ PoolAddresses(F) # {}
        /\ MaxOf(PoolAddresses(F)) + 4 > F.code_end_address
        /\ F.end_address = MaxOf(PoolAddresses(F)) + 4

(***************************************************************************)
(* Properties of from_modules                                              *)
(***************************************************************************)
AllOverlays(ms) == \A i \in DOMAIN ms : ms[i].kind.tag = "Overlay"

\* C11: from_modules returns None for no module; Main, Itcm, Dtcm or Overlay{id} for a
\* single module of that kind; Overlays{ids}, with two or more ids in iteration order,
\* for two or more modules that are all overlays; and no target for any other
\* sequence of two or more modules
C11_MinimalTarget ==
    target # <<>> =>
        LET r == target[1]
            n == Len(modules)
        IN  /\ n = 0 => r = Ok(ModuleNone)
            /\ n = 1 =>
                  LET k == modules[1].kind
                  IN  /\ k = ModuleKind_Arm9 => r = Ok(ModuleMain)
                      /\ k = ModuleKind_Autoload("Itcm") => r = Ok(ModuleItcm)
                      /\ k = ModuleKind_Autoload("Dtcm") => r = Ok(ModuleDtcm)
                      /\ k.tag = "Overlay" => r = Ok([tag |-> "Overlay", ids |-> k.id])
            /\ (n >= 2 /\ AllOverlays(modules)) =>
                  /\ r.ok
                  /\ r.value.tag = "Overlays"
                  /\ Len(r.value.ids) = n
                  /\ \A i \in 1..n : <<r.value.ids[i]>> = modules[i].kind.id
            /\ (n >= 2 /\ ~AllOverlays(modules)) => ~r.ok

\* from_modules has returned Overlays for two overlays
C11_Witness ==
    /\ target # <<>>
    /\ Len(modules) >= 2
    /\ AllOverlays(modules)
    /\ target[1].ok
    /\ target[1].value.tag = "Overlays"

(***************************************************************************)
(* Properties of cross-reference resolution                                *)
(***************************************************************************)
\* the candidates of symbol (by position) that lie in a section of kind sk of the
\* module of kind k
CandidatesIn(symbol, k, sk) ==
    { i \in DOMAIN symbol.candidates :
          LET m == modules[symbol.candidates[i].module_index + 1]
          IN  /\ m.kind = k
              /\ m.sections[symbol.candidates[i].section_index + 1] = sk }

\* what a step appended to the map of module kind k
AddedTo(before, after, k) == SubSeq(after[k], Len(before[k]) + 1, Len(after[k]))

OfKind(added, sk) == { i \in DOMAIN added : added[i].kind = sk }

\* C12: an external symbol is resolved by its number of candidates: none is an error
\* that adds nothing; one adds a concrete data symbol (Data) or a concrete bss symbol of
\* unknown size (Bss) to the candidate's module map and nothing for Code; two or more
\* add one ambiguous data or bss symbol per Data or Bss candidate to that candidate's
\* module map, and no concrete symbol
C12_ResolutionByCandidateCount ==
    [][ (xref = "resolve" /\ external_symbols # <<>>) =>
          LET symbol == Head(external_symbols)
              n == Len(symbol.candidates)
          IN  /\ n = 0 => (xref' = "error" /\ symbol_maps' = symbol_maps)
              /\ n >= 1 =>
                    /\ xref' = "resolve"
                    /\ \A k \in DOMAIN symbol_maps :
                          LET added == AddedTo(symbol_maps, symbol_maps', k)
                          IN  /\ SubSeq(symbol_maps'[k], 1, Len(symbol_maps[k])) = symbol_maps[k]
                              /\ \A i \in DOMAIN added :
                                    /\ added[i].addr = symbol.address
                                    /\ added[i].ambiguous = (n >= 2)
                                    /\ added[i].size = None
                              /\ Cardinality(OfKind(added, "Data")) =
                                     Cardinality(CandidatesIn(symbol, k, "Data"))
                              /\ Cardinality(OfKind(added, "Bss")) =
                                     Cardinality(CandidatesIn(symbol, k, "Bss"))
                              /\ Len(added) = Cardinality(OfKind(added, "Data"))
                                                + Cardinality(OfKind(added, "Bss")) ]_vars

\* main's map holds a concrete data symbol and each overlay's map an ambiguous one
C12_Witness ==
    /\ xref \in {"resolve", "analyze", "ok"}
    /\ DOMAIN symbol_maps # {}
    /\ \E i \in DOMAIN symbol_maps[ModuleKind_Arm9] :
          LET e == symbol_maps[ModuleKind_Arm9][i]
          IN  e.kind = "Data" /\ ~e.ambiguous
              /\ e.name = Str_data \o <<"0", "2", "1", "0", "0", "0", "0", "0">>
    /\ \A id \in {3, 4} :
          \E i \in DOMAIN symbol_maps[ModuleKind_Overlay(id)] :
              LET e == symbol_maps[ModuleKind_Overlay(id)][i]
              IN  e.kind = "Data" /\ e.ambiguous

\* candidates in the main module and in an overlay
MixedMainOverlay(symbol) ==
    /\ \E i \in DOMAIN symbol.candidates :
          modules[symbol.candidates[i].module_index + 1].kind.tag = "Arm9"
    /\ \E i \in DOMAIN symbol.candidates :
          modules[symbol.candidates[i].module_index + 1].kind.tag = "Overlay"

\* C13: resolving an external symbol whose candidates mix the main module with an
\* overlay is an invariant violation: the analysis stops unsuccessfully and no symbol
\* is installed for it
C13_MixedCandidatesAreRejected ==
    [][ (xref = "resolve" /\ external_symbols # <<>>
            /\ MixedMainOverlay(Head(external_symbols)))
          => (xref' \in {"error", "panic"} /\ symbol_maps' = symbol_maps) ]_vars

(***************************************************************************)
(* Properties of the relocation table                                      *)
(***************************************************************************)
\* every relocation the operations above hand to add
Added == AddInputs
         \cup { new_call(c[1], c[2], c[3], c[4], c[5]) : c \in CallInputs }
         \cup { new_load(l[1], l[2], l[3]) : l \in LoadInputs }

Entries(map) == { map[i] : i \in DOMAIN map }

Keeps(before, after) == \A e \in Entries(before) : BTreeGet(after, e.from) = Some(e)

Collides(map, r) == \E e \in Entries(map) : e.from = r.from /\ e # r

NonBlank(ls) == SelectSeq(ls, LAMBDA l : split_whitespace(l) # <<>>)

\* C3: a blank line is skipped: whenever from_file fails on a file, it fails on that
\* file with its blank lines taken out as well
C3_BlankLinesAreSkipped ==
    status = "error" => ~from_lines(NonBlank(lines(file)), <<>>).ok

\* C7: add(r) followed by add(r) leaves the table as the first add left it, prints one
\* warning and does not panic
C7_AddTwiceIsIdempotent ==
    \A r \in Added :
        LET once == add(relocations, r)
            twice == add(once.relocations, r)
        IN  once.status = "ok" =>
                /\ twice.relocations = once.relocations
                /\ BTreeGet(twice.relocations, r.from) = Some(r)
                /\ twice.status = "ok"
                /\ twice.stderr = << <<"identical to existing one", r.from>> >>

\* an add of a relocation the table already held has warned and gone on
C7_Witness ==
    /\ status = "ok"
    /\ Len(stderr) = 1
    /\ stderr[1][1] = "identical to existing one"
    /\ \E e \in Entries(relocations) : e.from = stderr[1][2]

\* C8: an add (alone, or from add_call, add_load or extend) of a relocation that differs
\* from the entry stored at its `from` panics, and no add changes a stored entry
C8_CollisionPanicsAndKeepsEntry ==
    /\ \A r \in Added :
          LET result == add(relocations, r)
          IN  /\ Keeps(relocations, result.relocations)
              /\ Collides(relocations, r) => result.status = "panic"
    /\ \A rs \in ExtendInputs :
          LET result == extend(relocations, rs)
          IN  /\ Keeps(relocations, result.relocations)
              /\ (\E i \in DOMAIN rs : Collides(relocations, rs[i]))
                    => result.status = "panic"

\* an add has collided: the analysis is aborted and the stored entry is not the new one
C8_Witness ==
    /\ status = "panic"
    /\ stderr[Len(stderr)][1] = "collides with existing one"
    /\ \E e \in Entries(relocations) : e.from = stderr[Len(stderr)][2]

\* the bounds of the ranges asked for
RangeBounds == { 0, Addr[1], Addr[2], Addr[2] + 1, Addr[3], Addr[4] }

\* C9: iter() yields strictly increasing `from`, and iter_range(lo..hi) yields exactly
\* the entries with lo <= from < hi, in increasing order
C9_IterationIsOrdered ==
    /\ \A i, j \in DOMAIN iter(relocations) :
          i < j => iter(relocations)[i].from < iter(relocations)[j].from
    /\ \A lo, hi \in RangeBounds :
          lo <= hi =>
              LET yield == iter_range(relocations, lo, hi)
              IN  /\ Entries(yield) =
                        { e \in Entries(relocations) : lo <= e.from /\ e.from < hi }
                  /\ \A i, j \in DOMAIN yield : i < j => yield[i].from < yield[j].from

\* a table of three entries
C9_Witness == status = "ok" /\ Len(relocations) = 3

ValidTable(map) == \A e \in Entries(map) : e.module.tag = "Overlays" => Len(e.module.ids) >= 2

\* C10: reading what to_file writes for a valid table yields the table
C10_RoundTrip ==
    ValidTable(relocations) => from_file(to_file(relocations)) = Ok(relocations)

\* a table with an Overlays target that was written and read back
C10_Witness ==
    /\ status = "ok"
    /\ file = to_file(relocations)
    /\ Len(relocations) >= 2
    /\ \E e \in Entries(relocations) : e.module = ModuleOverlays(<<4, 3>>)

\* C17: from_file does not apply the collision rule of add: a file whose lines all
\* parse is loaded without error, a later line with the same `from` replaces the
\* earlier one whether or not they differ, and the table holds exactly one entry for
\* each `from` of the file
C17_LaterLineReplaces ==
    LET ls == lines(file)
        parsed == [i \in DOMAIN ls |-> Relocation_parse(ls[i])]
        loaded == from_file(file)
    IN  (\A i \in DOMAIN ls : parsed[i].ok /\ parsed[i].value # None) =>
            /\ loaded.ok
            /\ \A i \in DOMAIN ls :
                  LET r == Unwrap(parsed[i].value)
                  IN  /\ Cardinality({ k \in DOMAIN loaded.value :
                                          loaded.value[k].from = r.from }) = 1
                      /\ (\A j \in DOMAIN ls : j > i => Unwrap(parsed[j].value).from # r.from)
                            => BTreeGet(loaded.value, r.from) = Some(r)
            /\ \A e \in Entries(loaded.value) :
                  \E i \in DOMAIN ls : Unwrap(parsed[i].value).from = e.from

\* the file with two different lines for one `from` has been loaded: the table is the
\* later line
C17_Witness ==
    /\ status = "ok"
    /\ file = FileSameFrom
    /\ relocations = << Relocation(Addr[1], Addr[2], "Load", ModuleDtcm) >>

====
